---- MODULE Spec2Model ----
(***************************************************************************)
(* Model of CSVProcessor (src/csv_processor.py): validate_data,            *)
(* process_data, save_data, move_and_rename_file, save_metadata and the    *)
(* per-file loop of process_all_files, run repeatedly over an input        *)
(* directory.                                                              *)
(*                                                                         *)
(* Text is modelled at token level: a column header is a sequence of word  *)
(* and separator tokens, an age cell is a sequence of characters, every      *)
(* cell is a sequence of characters or words (the empty sequence is the    *)
(* empty CSV field, which pandas reads as NaN).                            *)
(***************************************************************************)
EXTENDS Integers, Sequences, FiniteSets, TLC

\* ------------------------------------------------------------------ bounds
MaxRows == 2
MaxRuns == 2
MaxClock == 1
MaxDrops == 1
MaxFaults == 1

\* ----------------------------------------------------------------- helpers
Range(s) == {s[i] : i \in 1..Len(s)}

RECURSIVE SelectIdx(_, _, _)
\* the indices i of 1..n (ascending) with keep[i], as a sequence
SelectIdx(n, keep, i) ==
  IF i > n THEN <<>>
  ELSE IF keep[i] THEN <<i>> \o SelectIdx(n, keep, i + 1)
       ELSE SelectIdx(n, keep, i + 1)

NoFn == [k \in {} |-> 0]

\* ------------------------------------------------------ header text tokens
Space == " "
Underscore == "_"
Hyphen == "-"

\* str.lower on one token
Lower(tok) ==
  CASE tok = "First" -> "first"
    [] tok = "Last" -> "last"
    [] tok = "Name" -> "name"
    [] tok = "Age" -> "age"
    [] tok = "Email" -> "email"
    [] tok = "Full" -> "full"
    [] OTHER -> tok

\* str.title on one token (separators are left alone, words are capitalized)
Title(tok) ==
  CASE Lower(tok) = "first" -> "First"
    [] Lower(tok) = "last" -> "Last"
    [] Lower(tok) = "name" -> "Name"
    [] Lower(tok) = "age" -> "Age"
    [] Lower(tok) = "email" -> "Email"
    [] Lower(tok) = "full" -> "Full"
    [] OTHER -> tok

StrLower(h) == [i \in 1..Len(h) |-> Lower(h[i])]

\* str.replace(old, new) on a header
StrReplace(h, old, new) == [i \in 1..Len(h) |-> IF h[i] = old THEN new ELSE h[i]]

RECURSIVE LStrip(_)
LStrip(h) == IF h # <<>> /\ Head(h) = Space THEN LStrip(Tail(h)) ELSE h

RECURSIVE RStrip(_)
RStrip(h) ==
  IF h # <<>> /\ h[Len(h)] = Space THEN RStrip(SubSeq(h, 1, Len(h) - 1)) ELSE h

\* str.strip: leading and trailing whitespace removed
StrStrip(h) == RStrip(LStrip(h))

\* df.columns.str.lower().str.replace(" ", "_").str.strip()
NormalizeColumn(h) == StrStrip(StrReplace(StrLower(h), Space, Underscore))

\* column.replace("_", " ").title()
DisplayColumn(h) == [i \in 1..Len(h) |-> Title(StrReplace(h, Underscore, Space)[i])]

first_name == <<"first", "_", "name">>
last_name == <<"last", "_", "name">>
age == <<"age">>
email == <<"email">>
full_name == <<"full", "_", "name">>

required_columns == {first_name, last_name, age}

\* ------------------------------------------------------------- cell values
NaN == <<>>
Digits == {"0", "1", "2", "3", "4", "5", "6", "7", "8", "9"}

DigitVal(c) ==
  CASE c = "0" -> 0 [] c = "1" -> 1 [] c = "2" -> 2 [] c = "3" -> 3 [] c = "4" -> 4
    [] c = "5" -> 5 [] c = "6" -> 6 [] c = "7" -> 7 [] c = "8" -> 8 [] c = "9" -> 9

DigitChar(d) ==
  CASE d = 0 -> "0" [] d = 1 -> "1" [] d = 2 -> "2" [] d = 3 -> "3" [] d = 4 -> "4"
    [] d = 5 -> "5" [] d = 6 -> "6" [] d = 7 -> "7" [] d = 8 -> "8" [] d = 9 -> "9"

\* str.isdigit: non-empty and every character a decimal digit
IsDigit(s) == s # <<>> /\ \A i \in 1..Len(s) : s[i] \in Digits

\* whether the CSV parser reads the field as an integer (optional sign, digits)
ParsesAsInt(s) == IsDigit(s) \/ (s # <<>> /\ Head(s) = "-" /\ IsDigit(Tail(s)))

RECURSIVE NatValue(_)
NatValue(s) == IF s = <<>> THEN 0 ELSE NatValue(SubSeq(s, 1, Len(s) - 1)) * 10 + DigitVal(s[Len(s)])

IntValue(s) == IF Head(s) = "-" THEN 0 - NatValue(Tail(s)) ELSE NatValue(s)

RECURSIVE NatToStr(_)
NatToStr(n) == IF n < 10 THEN <<DigitChar(n)>> ELSE NatToStr(n \div 10) \o <<DigitChar(n % 10)>>

\* str(int)
IntToStr(n) == IF n < 0 THEN <<"-">> \o NatToStr(0 - n) ELSE NatToStr(n)

\* ------------------------------------------------------------------ tables
\* A DataFrame: cols is the sequence of column labels, rows the sequence of
\* rows, each row a sequence of cells aligned with cols.
ColIdx(df, name) == CHOOSE i \in 1..Len(df.cols) : df.cols[i] = name

Column(df, name) == [r \in 1..Len(df.rows) |-> df.rows[r][ColIdx(df, name)]]

\* dtype pandas infers for the age column: int64 when every field parses as an
\* integer, object (strings) otherwise; an empty column is object
AgeDtype(col) ==
  IF Len(col) > 0 /\ \A r \in 1..Len(col) : ParsesAsInt(col[r]) THEN "int64" ELSE "object"

\* dtype of a name column: float64 when every field is empty (all NaN)
NameDtype(col) ==
  IF Len(col) > 0 /\ \A r \in 1..Len(col) : col[r] = NaN THEN "float64" ELSE "object"

\* df["age"].astype(str), element r
AgeAsStr(col, r) == IF AgeDtype(col) = "int64" THEN IntToStr(IntValue(col[r])) ELSE col[r]

\* df.loc[:, df.columns.isin(required_columns)]
PruneColumns(df) ==
  LET keep == SelectIdx(Len(df.cols), [i \in 1..Len(df.cols) |-> df.cols[i] \in required_columns], 1)
  IN [cols |-> [k \in 1..Len(keep) |-> df.cols[keep[k]]],
      rows |-> [r \in 1..Len(df.rows) |-> [k \in 1..Len(keep) |-> df.rows[r][keep[k]]]]]

\* df.duplicated(): row r equals an earlier row
Duplicated(df) == [r \in 1..Len(df.rows) |-> \E q \in 1..(r - 1) : df.rows[q] = df.rows[r]]

\* df.drop_duplicates(): the first occurrence of every row is kept
DropDuplicates(df) ==
  LET keep == SelectIdx(Len(df.rows), [r \in 1..Len(df.rows) |-> ~Duplicated(df)[r]], 1)
  IN [cols |-> df.cols, rows |-> [k \in 1..Len(keep) |-> df.rows[keep[k]]]]

\* sub-sequence of the elements of col selected by the boolean mask
Masked(col, mask) ==
  LET keep == SelectIdx(Len(col), mask, 1) IN [k \in 1..Len(keep) |-> col[keep[k]]]

CountTrue(mask) == Cardinality({r \in DOMAIN mask : mask[r]})

\* ----------------------------------------------------------- validate_data
\* the report naming every required column instead of the absent ones
MissingRequiredAll(cols) == required_columns

\* list(required_columns.difference(df.columns)), as a set
MissingRequired(cols) == required_columns \ Range(cols)

\* list(set(df.columns).difference(required_columns)), evaluated on the frame
\* that df names at that point (the already pruned one)
ExtraColumns(df) == Range(df.cols) \ required_columns

\* df[["first_name", "last_name"]].isnull().sum(), as a list
NullCounts(df) ==
  << CountTrue([r \in 1..Len(df.rows) |-> Column(df, first_name)[r] = NaN]),
     CountTrue([r \in 1..Len(df.rows) |-> Column(df, last_name)[r] = NaN]) >>

\* ~df["age"].astype(str).str.isdigit()
NonDigitMask(col) == [r \in 1..Len(col) |-> ~IsDigit(AgeAsStr(col, r))]

\* whether df["age"] < 0 raises TypeError: an object column holds str values,
\* and '<' between str and int is not supported
RangeCheckRaises(col) == AgeDtype(col) = "object" /\ Len(col) > 0

\* (df["age"] < 0) | (df["age"] > 120), on an int64 column
OutlierMask(col) ==
  [r \in 1..Len(col) |-> AgeDtype(col) = "int64" /\ (IntValue(col[r]) < 0 \/ IntValue(col[r]) > 120)]

\* duplicate_count = df.duplicated().sum()
DuplicateCount(df) == CountTrue(Duplicated(df))

\* The object the caller's name df still refers to when validate_data returns:
\* the pruning rebinds the local name to a new frame, so the in-place
\* drop_duplicates reaches the caller's frame only when nothing was pruned.
CallerFrame(renamed, local, pruned) ==
  IF pruned THEN renamed
  ELSE IF \E r \in 1..Len(local.rows) : Duplicated(local)[r] THEN DropDuplicates(local) ELSE local

\* validate_data(df, file_name): [raised, is_valid, report, df] where df is
\* the caller's frame after the call
validate_data(df0) ==
  LET renamed == [cols |-> [i \in 1..Len(df0.cols) |-> NormalizeColumn(df0.cols[i])],
                  rows |-> df0.rows]
  IN IF ~(required_columns \subseteq Range(renamed.cols))
     THEN [raised |-> FALSE, is_valid |-> FALSE,
           report |-> ("missing_required_columns" :> MissingRequired(renamed.cols)),
           df |-> renamed]
     ELSE
       LET pruned == Range(renamed.cols) # required_columns
           local == IF pruned THEN PruneColumns(renamed) ELSE renamed
           r_extra == IF pruned THEN "extra_columns" :> ExtraColumns(local) ELSE NoFn
           r_missing == IF NullCounts(local) # <<0, 0>>
                        THEN "missing_values" :> NullCounts(local) ELSE NoFn
           agecol == Column(local, age)
           r_nonint == IF \E r \in 1..Len(agecol) : NonDigitMask(agecol)[r]
                       THEN "non_integer_age" :> Masked(agecol, NonDigitMask(agecol)) ELSE NoFn
           r_outlier == IF \E r \in 1..Len(agecol) : OutlierMask(agecol)[r]
                        THEN "age_outliers" :> Masked(agecol, OutlierMask(agecol)) ELSE NoFn
           r_dup == IF DuplicateCount(local) > 0
                    THEN "duplicates" :> DuplicateCount(local) ELSE NoFn
       IN IF RangeCheckRaises(agecol)
          THEN [raised |-> TRUE, is_valid |-> FALSE,
                report |-> r_extra @@ r_missing @@ r_nonint, df |-> renamed]
          ELSE [raised |-> FALSE, is_valid |-> TRUE,
                report |-> r_extra @@ r_missing @@ r_nonint @@ r_outlier @@ r_dup,
                df |-> CallerFrame(renamed, local, pruned)]

\* ------------------------------------------------------------ process_data
\* whether df["first_name"] + " " raises TypeError (a float64 column and a str)
ConcatRaises(df) == NameDtype(Column(df, first_name)) = "float64"

\* one element of df["first_name"] + " " + df["last_name"]: missing when either
\* part is missing
FullNameCell(f, l) == IF f = NaN \/ l = NaN THEN NaN ELSE f \o <<Space>> \o l

\* process_data(df): the full_name column added, every label display-cased
process_data(df) ==
  LET withfull == [cols |-> Append(df.cols, full_name),
                   rows |-> [r \in 1..Len(df.rows) |->
                               Append(df.rows[r],
                                      FullNameCell(Column(df, first_name)[r],
                                                   Column(df, last_name)[r]))]]
  IN [cols |-> [i \in 1..Len(withfull.cols) |-> DisplayColumn(withfull.cols[i])],
      rows |-> withfull.rows]

\* --------------------------------------------------- files and directories
\* A file name: os.path.splitext splits it into stem and extension.
Name(stem, ext) == [stem |-> stem, ext |-> ext]
CsvNames == {Name("a", ".csv"), Name("b", ".csv"), Name("c", ".csv")}
OtherNames == {Name("notes", ".txt")}
Names == CsvNames \cup OtherNames

\* the order in which os.listdir reports the entries of the input directory
ListingOrder == <<Name("a", ".csv"), Name("b", ".csv"), Name("notes", ".txt"), Name("c", ".csv")>>

\* What a path holds: nothing, a CSV table, or bytes that cannot be read as one.
File(kind, cols, rows) == [kind |-> kind, cols |-> cols, rows |-> rows]
NoFile == File("absent", <<>>, <<>>)
TableFile(t) == File("table", t.cols, t.rows)
Frame(f) == [cols |-> f.cols, rows |-> f.rows]
NoFrame == [cols |-> <<>>, rows |-> <<>>]

\* open() fails / pd.read_csv raises ParserError / UnicodeDecodeError
BadFiles == {File("unreadable", <<>>, <<>>), File("malformed", <<>>, <<>>),
             File("undecodable", <<>>, <<>>)}

ReadError(f) ==
  CASE f.kind = "unreadable" -> "PermissionError"
    [] f.kind = "malformed" -> "ParserError"
    [] f.kind = "undecodable" -> "UnicodeDecodeError"
    [] f.kind = "absent" -> "FileNotFoundError"
    [] OTHER -> "none"


FirstCells == {<<"Ann">>, NaN}
LastCells == {<<"Lee">>}
AgeCells == {<<"3", "0">>, <<"1", "5", "0">>, <<"-", "1">>, <<"x">>}
EmailCells == {<<"e1">>, <<"e2">>}

\* the cells a column may hold, by the word its label carries
CellsOf(h) ==
  CASE "first" \in Range(StrLower(h)) -> FirstCells
    [] "last" \in Range(StrLower(h)) -> LastCells
    [] "age" \in Range(StrLower(h)) -> AgeCells
    [] OTHER -> EmailCells

Layouts ==
  { <<first_name, last_name, age>>,
    <<<<"First", " ", "Name">>, <<"Last", " ", "Name">>, <<"Age">>>>,
    <<<<" ", "first", "-", "name", " ">>, last_name, age>>,
    <<first_name, last_name, age, email>>,
    <<first_name, last_name>>, <<last_name, age>>, <<age>>, <<email>> }

RowsOf(cols) == {r \in [1..Len(cols) -> FirstCells \cup LastCells \cup AgeCells \cup EmailCells] :
                   \A i \in 1..Len(cols) : r[i] \in CellsOf(cols[i])}

RECURSIVE RowSeqs(_, _)
\* every sequence of at most n rows over the layout cols
RowSeqs(cols, n) ==
  IF n = 0 THEN {<<>>}
  ELSE LET shorter == RowSeqs(cols, n - 1)
       IN shorter \cup {Append(rs, r) : rs \in {x \in shorter : Len(x) = n - 1}, r \in RowsOf(cols)}

Tables == UNION {{File("table", cols, rows) : rows \in RowSeqs(cols, MaxRows)} : cols \in Layouts}

\* the files a batch of several files is drawn from
BatchFiles ==
  { File("table", <<first_name, last_name, age>>, <<<<<<"Ann">>, <<"Lee">>, <<"3", "0">>>>>>),
    File("table", <<first_name, last_name, age>>, <<<<<<"Ann">>, <<"Lee">>, <<"x">>>>>>),
    File("table", <<first_name, last_name>>, <<<<<<"Ann">>, <<"Lee">>>>>>),
    File("unreadable", <<>>, <<>>) }

\* ------------------------------------------------------------------- state
VARIABLES
  input_dir,            \* [Names -> file]: the input directory
  output_dir,           \* [Names -> file]: transformed tables, by base name
  processed_dir,        \* [ArchiveNames -> file]: archived sources
  metadata_dir,         \* [stems -> record]: <stem>_metadata.json
  batch_record,         \* the aggregate artifact of the last run
  env,                  \* [CsvNames -> fault]: what the file system does to a file
  clock,                \* the last value datetime.now() returned (seconds)
  runs,                 \* runs of process_all_files finished
  drops,                \* files dropped into the input directory between runs
  pc,                   \* position in process_all_files
  file_paths, idx,      \* the listing and the position of the loop in it
  df, is_valid, validation_report, new_file_path,   \* locals of the loop body
  dataframes, metadata_collection,                  \* the two accumulators
  log,                  \* what the per-file except handler logged, this run
  outcome,              \* how the last run ended
  returned              \* the frame the last run returned

vars == <<input_dir, output_dir, processed_dir, metadata_dir, batch_record, env, clock,
          runs, drops, pc, file_paths, idx, df, is_valid, validation_report,
          new_file_path, dataframes, metadata_collection, log, outcome, returned>>

dirs == <<input_dir, output_dir, processed_dir, metadata_dir, batch_record>>
locals == <<df, is_valid, validation_report, new_file_path>>

\* attributes __init__ sets and methods the class defines
InstanceAttrs == {"input_dir", "output_dir", "processed_dir", "metadata_dir"}
Methods == {"process_data", "save_data", "validate_data", "move_and_rename_file",
            "save_metadata", "process_all_files"}

FaultKinds == {"to_csv", "vanished", "permission", "oserror", "unconfirmed", "metadata"}

\* f"{timestamp}_{base_name}" in the processed folder
ArchiveName(t, n) == [timestamp |-> t, base_name |-> n]
ArchiveNames == {ArchiveName(t, n) : t \in 0..MaxClock, n \in CsvNames}
NoPath == [timestamp |-> 0 - 1, base_name |-> Name("", "")]

NoBatch == [written |-> FALSE, records |-> <<>>]

NoRecord == [file_name |-> NoPath, processed_time |-> 0 - 1, num_records |-> 0 - 1,
             validation_report |-> NoFn]

\* os.path.splitext(os.path.split(file_name)[1])[0]
Stem(n) == n.stem
Stems == {Stem(n) : n \in Names}

\* file.endswith(".csv")
EndsWithCsv(n) == n.ext = ".csv"

\* [os.path.join(input_dir, file) for file in os.listdir(input_dir) if file.endswith(".csv")]
ListCsv(dir) ==
  LET keep == SelectIdx(Len(ListingOrder),
                        [i \in 1..Len(ListingOrder) |->
                           dir[ListingOrder[i]].kind # "absent" /\ EndsWithCsv(ListingOrder[i])], 1)
  IN [k \in 1..Len(keep) |-> ListingOrder[keep[k]]]

PlainFile == File("malformed", <<>>, <<>>)

\* everything but the input directory and the file-system conditions
InitRest ==
  /\ output_dir = [n \in Names |-> NoFile]
  /\ processed_dir = [a \in ArchiveNames |-> NoFile]
  /\ metadata_dir = [st \in Stems |-> NoRecord]
  /\ batch_record = NoBatch
  /\ clock = 0
  /\ runs = 0
  /\ drops = 0
  /\ pc = "idle"
  /\ file_paths = <<>>
  /\ idx = 0
  /\ df = NoFrame
  /\ is_valid = FALSE
  /\ validation_report = NoFn
  /\ new_file_path = NoPath
  /\ dataframes = <<>>
  /\ metadata_collection = <<>>
  /\ log = <<>>
  /\ outcome = "none"
  /\ returned = NoFrame

\* a batch of files waits in the input directory, beside a file that is no CSV;
\* the file system may fail on some of the files
Init ==
  /\ \E batch \in [CsvNames -> BatchFiles \cup {NoFile}] :
       input_dir = [n \in Names |-> IF n \in CsvNames THEN batch[n] ELSE PlainFile]
  /\ env \in {e \in [CsvNames -> FaultKinds \cup {"none"}] :
                /\ Cardinality({n \in CsvNames : e[n] # "none"}) <= MaxFaults
                /\ \A n \in CsvNames : e[n] # "none" => input_dir[n].kind = "table"}
  /\ InitRest

\* one file of any content waits in the input directory; the file system works
InitTable ==
  /\ \E one \in Tables \cup BadFiles :
       input_dir = [n \in Names |-> IF n = Name("a", ".csv") THEN one ELSE NoFile]
  /\ env = [n \in CsvNames |-> "none"]
  /\ InitRest

\* ---------------------------------------------------- move_and_rename_file
\* the move without the check that the destination exists afterwards
move_unverified(src, t, fault, indir, pdir) ==
  LET dest == ArchiveName(t, src)
      gone == [indir EXCEPT ![src] = NoFile]
  IN CASE indir[src].kind = "absent" \/ fault = "vanished" ->
            [exc |-> "FileNotFoundError", path |-> NoPath, input_dir |-> gone, processed_dir |-> pdir]
       [] fault = "permission" ->
            [exc |-> "PermissionError", path |-> NoPath, input_dir |-> indir, processed_dir |-> pdir]
       [] fault = "oserror" ->
            [exc |-> "Exception", path |-> NoPath, input_dir |-> indir, processed_dir |-> pdir]
       [] fault = "unconfirmed" ->
            [exc |-> "none", path |-> dest, input_dir |-> gone, processed_dir |-> pdir]
       [] OTHER ->
            [exc |-> "none", path |-> dest, input_dir |-> gone,
             processed_dir |-> [pdir EXCEPT ![dest] = indir[src]]]

\* move_and_rename_file(source_file, self.processed_dir) with datetime.now()
\* reading t, under the file-system condition fault: the exception raised
\* ("none" when it returns), the path returned, and the two directories after.
move_and_rename_file(src, t, fault, indir, pdir) ==
  LET dest == ArchiveName(t, src)
      gone == [indir EXCEPT ![src] = NoFile]
  IN CASE indir[src].kind = "absent" \/ fault = "vanished" ->
            [exc |-> "FileNotFoundError", path |-> NoPath, input_dir |-> gone, processed_dir |-> pdir]
       [] fault = "permission" ->
            [exc |-> "PermissionError", path |-> NoPath, input_dir |-> indir, processed_dir |-> pdir]
       [] fault = "oserror" ->
            [exc |-> "Exception", path |-> NoPath, input_dir |-> indir, processed_dir |-> pdir]
       [] fault = "unconfirmed" ->
            [exc |-> "Exception", path |-> NoPath, input_dir |-> gone, processed_dir |-> pdir]
       [] OTHER ->
            [exc |-> "none", path |-> dest, input_dir |-> gone,
             processed_dir |-> [pdir EXCEPT ![dest] = indir[src]]]

\* ------------------------------------------------------- process_all_files
file_path == file_paths[idx]

\* the loop goes on to the next file, or leaves the loop after the last one
NextFile ==
  /\ idx' = idx + 1
  /\ pc' = IF idx + 1 > Len(file_paths) THEN "finish" ELSE "read"

\* the handler as it would be around the whole loop: the fault ends the batch
ExceptEndsLoop(exc) ==
  /\ log' = Append(log, [file |-> file_path, exc |-> exc, at |-> pc])
  /\ idx' = Len(file_paths) + 1
  /\ pc' = "finish"

\* except Exception as e: logging.error(...)
Except(exc) ==
  /\ log' = Append(log, [file |-> file_path, exc |-> exc, at |-> pc])
  /\ NextFile

StartRun ==
  /\ pc = "idle"
  /\ runs < MaxRuns
  /\ file_paths' = ListCsv(input_dir)
  /\ dataframes' = <<>>
  /\ metadata_collection' = <<>>
  /\ log' = <<>>
  /\ idx' = 1
  /\ pc' = IF ListCsv(input_dir) = <<>> THEN "finish" ELSE "read"
  /\ df' = NoFrame
  /\ is_valid' = FALSE
  /\ validation_report' = NoFn
  /\ new_file_path' = NoPath
  /\ outcome' = "running"
  /\ returned' = NoFrame
  /\ UNCHANGED <<dirs, env, clock, runs, drops>>

\* the read step with a handler that archives the file it could not parse
ReadCsvArchivesFailure ==
  /\ pc = "read"
  /\ IF ReadError(input_dir[file_path]) # "none"
     THEN /\ Except(ReadError(input_dir[file_path]))
          /\ input_dir' = [input_dir EXCEPT ![file_path] = NoFile]
          /\ processed_dir' = [processed_dir EXCEPT ![ArchiveName(clock, file_path)] =
                                  input_dir[file_path]]
          /\ UNCHANGED <<locals>>
     ELSE /\ df' = Frame(input_dir[file_path])
          /\ pc' = "validate"
          /\ UNCHANGED <<input_dir, processed_dir, idx, log, is_valid, validation_report,
                         new_file_path>>
  /\ UNCHANGED <<output_dir, metadata_dir, batch_record, env, clock, runs, drops, file_paths,
                 dataframes, metadata_collection, outcome, returned>>

\* open(file_path, "rb"), chardet.detect, pd.read_csv
ReadCsv ==
  /\ pc = "read"
  /\ IF ReadError(input_dir[file_path]) # "none"
     THEN /\ Except(ReadError(input_dir[file_path]))
          /\ UNCHANGED <<locals>>
     ELSE /\ df' = Frame(input_dir[file_path])
          /\ pc' = "validate"
          /\ UNCHANGED <<idx, log, is_valid, validation_report, new_file_path>>
  /\ UNCHANGED <<dirs, env, clock, runs, drops, file_paths, dataframes,
                 metadata_collection, outcome, returned>>

\* is_valid, validation_report = self.validate_data(df, file_path)
Validate ==
  /\ pc = "validate"
  /\ LET v == validate_data(df)
     IN IF v.raised
        THEN /\ Except("TypeError")
             /\ UNCHANGED <<locals>>
        ELSE /\ df' = v.df
             /\ is_valid' = v.is_valid
             /\ validation_report' = v.report
             /\ pc' = IF v.is_valid THEN "transform" ELSE "quarantine"
             /\ UNCHANGED <<idx, log, new_file_path>>
  /\ UNCHANGED <<dirs, env, clock, runs, drops, file_paths, dataframes,
                 metadata_collection, outcome, returned>>

\* df = self.process_data(df); self.save_data(df, file_path); dataframes.append(df)
TransformSave ==
  /\ pc = "transform"
  /\ IF ConcatRaises(df)
     THEN /\ Except("TypeError")
          /\ UNCHANGED <<df, output_dir, dataframes>>
     ELSE IF env[file_path] = "to_csv"
     THEN /\ Except("OSError")
          /\ df' = process_data(df)
          /\ UNCHANGED <<output_dir, dataframes>>
     ELSE /\ df' = process_data(df)
          /\ output_dir' = [output_dir EXCEPT ![file_path] = TableFile(process_data(df))]
          /\ dataframes' = Append(dataframes, process_data(df))
          /\ pc' = "move"
          /\ UNCHANGED <<idx, log>>
  /\ UNCHANGED <<input_dir, processed_dir, metadata_dir, batch_record, env, clock, runs,
                 drops, file_paths, is_valid, validation_report, new_file_path,
                 metadata_collection, outcome, returned>>

\* new_file_path = self.move_and_rename_file(file_path, self.processed_dir)
Move ==
  /\ pc = "move"
  /\ \E t \in clock..MaxClock :
       LET m == move_and_rename_file(file_path, t, env[file_path], input_dir, processed_dir)
       IN /\ clock' = t
          /\ input_dir' = m.input_dir
          /\ processed_dir' = m.processed_dir
          /\ IF m.exc # "none"
             THEN /\ Except(m.exc)
                  /\ UNCHANGED new_file_path
             ELSE /\ new_file_path' = m.path
                  /\ pc' = "record"
                  /\ UNCHANGED <<idx, log>>
  /\ UNCHANGED <<output_dir, metadata_dir, batch_record, env, runs, drops, file_paths, df,
                 is_valid, validation_report, dataframes, metadata_collection, outcome, returned>>

\* error_messages.append(...); self.move_and_rename_file(file_path, self.error_dir):
\* the instance has no attribute error_dir, so evaluating the argument raises
Quarantine ==
  /\ pc = "quarantine"
  /\ "error_dir" \notin InstanceAttrs
  /\ Except("AttributeError")
  /\ UNCHANGED <<dirs, env, clock, runs, drops, file_paths, locals, dataframes,
                 metadata_collection, outcome, returned>>

\* metadata = {...}; metadata_collection.append(metadata)
Record ==
  /\ pc = "record"
  /\ \E t \in clock..MaxClock :
       /\ clock' = t
       /\ metadata_collection' =
            Append(metadata_collection,
                   [file_name |-> new_file_path, processed_time |-> t,
                    num_records |-> Len(df.rows), validation_report |-> validation_report])
  /\ pc' = "save_metadata"
  /\ UNCHANGED <<dirs, env, runs, drops, file_paths, idx, locals, dataframes, log, outcome, returned>>

\* self.save_metadata(metadata, file_path)
SaveMetadata ==
  /\ pc = "save_metadata"
  /\ IF env[file_path] = "metadata"
     THEN /\ Except("OSError")
          /\ UNCHANGED metadata_dir
     ELSE /\ metadata_dir' = [metadata_dir EXCEPT ![Stem(file_path)] =
                                metadata_collection[Len(metadata_collection)]]
          /\ NextFile
          /\ UNCHANGED log
  /\ UNCHANGED <<input_dir, output_dir, processed_dir, batch_record, env, clock, runs, drops,
                 file_paths, locals, dataframes, metadata_collection, outcome, returned>>

RECURSIVE ConcatCols(_, _)
\* the union of the frames' columns, in order of first appearance
ConcatCols(frames, acc) ==
  IF frames = <<>> THEN acc
  ELSE LET new == SelectIdx(Len(Head(frames).cols),
                            [i \in 1..Len(Head(frames).cols) |-> Head(frames).cols[i] \notin Range(acc)], 1)
       IN ConcatCols(Tail(frames), acc \o [k \in 1..Len(new) |-> Head(frames).cols[new[k]]])

RECURSIVE ConcatRows(_, _)
\* the frames' rows one after the other, NaN where a frame lacks a column
ConcatRows(frames, cols) ==
  IF frames = <<>> THEN <<>>
  ELSE [r \in 1..Len(Head(frames).rows) |->
          [c \in 1..Len(cols) |->
             IF cols[c] \in Range(Head(frames).cols)
             THEN Head(frames).rows[r][ColIdx(Head(frames), cols[c])] ELSE NaN]]
       \o ConcatRows(Tail(frames), cols)

\* pd.concat(dataframes, ignore_index=True), for a non-empty list
Concat(frames) ==
  [cols |-> ConcatCols(frames, <<>>), rows |-> ConcatRows(frames, ConcatCols(frames, <<>>))]

\* self.save_metadata_collection(metadata_collection); return pd.concat(...):
\* the class defines no save_metadata_collection, so the call raises
\* AttributeError, which leaves process_all_files
Finish ==
  /\ pc = "finish"
  /\ IF "save_metadata_collection" \notin Methods
     THEN /\ outcome' = "AttributeError"
          /\ UNCHANGED <<batch_record, returned>>
     ELSE /\ batch_record' = [written |-> TRUE, records |-> metadata_collection]
          /\ outcome' = IF dataframes = <<>> THEN "ValueError" ELSE "returned"
          /\ returned' = IF dataframes = <<>> THEN NoFrame ELSE Concat(dataframes)
  /\ pc' = "idle"
  /\ runs' = runs + 1
  /\ UNCHANGED <<input_dir, output_dir, processed_dir, metadata_dir, env, clock, drops,
                 file_paths, idx, locals, dataframes, metadata_collection, log>>

\* between two runs, the producer delivers again a file that was archived:
\* the same base name, the same content
Drop ==
  /\ pc = "idle"
  /\ drops < MaxDrops
  /\ \E a \in ArchiveNames :
       /\ processed_dir[a].kind # "absent"
       /\ input_dir[a.base_name].kind = "absent"
       /\ input_dir' = [input_dir EXCEPT ![a.base_name] = processed_dir[a]]
  /\ drops' = drops + 1
  /\ UNCHANGED <<output_dir, processed_dir, metadata_dir, batch_record, env, clock, runs, pc,
                 file_paths, idx, locals, dataframes, metadata_collection, log, outcome, returned>>

Next ==
  \/ StartRun
  \/ ReadCsv
  \/ Validate
  \/ TransformSave
  \/ Move
  \/ Quarantine
  \/ Record
  \/ SaveMetadata
  \/ Finish
  \/ Drop

Spec == Init /\ [][Next]_vars

SpecTable == InitTable /\ [][Next]_vars

\* ================================================================== claims
\* what validate_data answers for the table a file holds
Verdict(f) == validate_data(Frame(f))

\* a file the code reads, accepts and transforms without a fault of its own
Healthy(f) ==
  /\ f.kind = "table"
  /\ ~Verdict(f).raised
  /\ Verdict(f).is_valid
  /\ ~ConcatRaises(Verdict(f).df)

\* a file whose verdict is rejected
Rejected(f) == f.kind = "table" /\ ~Verdict(f).raised /\ ~Verdict(f).is_valid

\* the file n of this run has its output, its archived copy and its FileRecord
Settled(n) ==
  /\ input_dir[n].kind = "absent"
  /\ output_dir[n].kind = "table"
  /\ \E a \in ArchiveNames :
       /\ a.base_name = n
       /\ processed_dir[a].kind = "table"
       /\ metadata_dir[Stem(n)].file_name = a
       /\ \E k \in 1..Len(metadata_collection) : metadata_collection[k].file_name = a

Logged(n) == \E k \in 1..Len(log) : log[k].file = n

\* C1: when the loop of process_all_files has ended, every file of the batch
\* that is itself readable and valid, and that the file system did not fail
\* on, has its transformed output, its archived copy and its FileRecord,
\* whatever happened to the other files of the batch.
C1_FailureIsolated ==
  pc = "finish" =>
    \A i \in 1..Len(file_paths) :
      LET n == file_paths[i]
      IN env[n] = "none" =>
           /\ input_dir[n].kind # "absent" => ~Healthy(input_dir[n])
           /\ input_dir[n].kind = "absent" => Settled(n) /\ ~Logged(n)

\* a batch of three files whose second file failed and whose first and third
\* files are settled
C1_Witness ==
  /\ pc = "finish"
  /\ Len(file_paths) = 3
  /\ Logged(file_paths[2])
  /\ input_dir[file_paths[2]].kind = "unreadable"
  /\ Settled(file_paths[1]) /\ Settled(file_paths[3])

\* C2: a run of process_all_files always completes normally: it writes one
\* BatchRecord holding every FileRecord of the run and returns the
\* concatenation of the transformed tables; no exception leaves it.
C2_RunCompletes ==
  (pc = "idle" /\ runs > 0) =>
    /\ outcome = "returned"
    /\ batch_record = [written |-> TRUE, records |-> metadata_collection]

\* C3: after the loop, no file of the batch that reached the verdict rejected
\* is left in the input directory (it was moved to the error folder).
C3_RejectedQuarantined ==
  pc = "finish" =>
    \A i \in 1..Len(file_paths) :
      env[file_paths[i]] = "none" => ~Rejected(input_dir[file_paths[i]])

\* the table of a file with its labels normalized
Normalized(f) == [cols |-> [i \in 1..Len(f.cols) |-> NormalizeColumn(f.cols[i])], rows |-> f.rows]

\* the required names a file's normalized header lacks, and the names beyond them
RawMissing(f) == {c \in required_columns : \A i \in 1..Len(f.cols) : NormalizeColumn(f.cols[i]) # c}
RawExtras(f) == {NormalizeColumn(f.cols[i]) : i \in 1..Len(f.cols)} \ required_columns

\* the list the report holds under key, empty when the key is not set
ReportList(key) == IF key \in DOMAIN validation_report THEN validation_report[key] ELSE <<>>

\* C4: for a table that lacks a required column after normalization,
\* validate_data returns accepted = false with a report whose only key,
\* missing_required_columns, holds exactly the absent names, and the table
\* keeps all its rows and columns; validate_data never faults on such a table.
C4_MissingColumnsRejected ==
  /\ pc \in {"transform", "quarantine"} =>
       LET raw == input_dir[file_path]
       IN RawMissing(raw) # {} =>
            /\ pc = "quarantine"
            /\ ~is_valid
            /\ DOMAIN validation_report = {"missing_required_columns"}
            /\ validation_report["missing_required_columns"] = RawMissing(raw)
            /\ df = Normalized(raw)
  /\ \A k \in 1..Len(log) : log[k].at = "validate" => RawMissing(input_dir[log[k].file]) = {}

\* a two-row table with only an age column was rejected for its two absent names
C4_Witness ==
  /\ pc = "quarantine"
  /\ validation_report["missing_required_columns"] = {first_name, last_name}
  /\ Len(df.rows) = 2

\* C5: for a table with the required columns and extras, the report lists the
\* removed names under extra_columns and the table that is transformed,
\* persisted and returned has the required columns and full_name only.
C5_ExtrasPruned ==
  pc = "move" =>
    LET raw == input_dir[file_path]
    IN RawExtras(raw) # {} =>
         /\ "extra_columns" \in DOMAIN validation_report
         /\ validation_report["extra_columns"] = RawExtras(raw)
         /\ Range(df.cols) = {DisplayColumn(c) : c \in required_columns \cup {full_name}}
         /\ output_dir[file_path].cols = df.cols
         /\ dataframes[Len(dataframes)].cols = df.cols

\* C6: for an accepted table with full-row duplicates, the number under
\* duplicates is the number of rows removed, and the table that is
\* transformed and persisted has the input's rows less that number.
C6_DuplicatesCounted ==
  pc = "move" =>
    LET raw == input_dir[file_path]
    IN (\E r \in 1..Len(raw.rows) : Duplicated(Frame(raw))[r]) =>
         /\ "duplicates" \in DOMAIN validation_report
         /\ validation_report["duplicates"] = Len(raw.rows) - Len(df.rows)
         /\ validation_report["duplicates"] = DuplicateCount(Frame(raw))
         /\ Len(output_dir[file_path].rows) = Len(df.rows)

\* C7: validate_data accepts every table with the required columns and never
\* faults on one; the ages that are not all digits are listed under
\* non_integer_age, every all-digit age above 120 under age_outliers, and no
\* non-numeric age under age_outliers.
C7_AgeRules ==
  /\ \A k \in 1..Len(log) : log[k].at # "validate"
  /\ pc \in {"transform", "quarantine"} =>
       LET raw == input_dir[file_path]
       IN RawMissing(raw) = {} =>
            LET ages == Column(Normalized(raw), age)
            IN /\ is_valid
               /\ ReportList("non_integer_age") =
                    Masked(ages, [r \in 1..Len(ages) |-> ~IsDigit(ages[r])])
               /\ \A r \in 1..Len(ages) :
                    /\ (IsDigit(ages[r]) /\ IntValue(ages[r]) > 120)
                         => ages[r] \in Range(ReportList("age_outliers"))
                    /\ ~ParsesAsInt(ages[r]) => ages[r] \notin Range(ReportList("age_outliers"))

\* C8: a successful move never lands on a path that already holds an archived
\* file, so settling the same base name twice leaves two archived files.
C8_NoOverwrite ==
  [][(pc = "move" /\ pc' = "record") => processed_dir[new_file_path'].kind = "absent"]_vars

\* the file at the loop's position cannot be read or parsed
ParseFails == pc = "read" /\ input_dir[file_path].kind \in {"unreadable", "malformed", "undecodable"}

\* C9: when reading or parsing a file fails, the step changes no directory and
\* neither accumulator and the loop goes on to the next file; at the end of the
\* run the file is still in the input directory under its name, where the
\* next listing finds it.
C9_ParseFailureFrame ==
  /\ [][ParseFails =>
          /\ UNCHANGED <<input_dir, output_dir, processed_dir, metadata_dir, batch_record,
                         dataframes, metadata_collection>>
          /\ idx' = idx + 1
          /\ pc' \in {"read", "finish"}
          /\ log' = Append(log, [file |-> file_path, exc |-> ReadError(input_dir[file_path]),
                                 at |-> "read"])]_vars
  /\ [](pc = "finish" =>
          \A k \in 1..Len(log) :
            log[k].at = "read" =>
              /\ input_dir[log[k].file].kind \in {"unreadable", "malformed", "undecodable"}
              /\ log[k].file \in Range(ListCsv(input_dir)))

\* a later run reads again a file that an earlier run could not read
C9_Witness == runs > 0 /\ ParseFails

\* C10: a run in which no file was accepted ends by returning an empty result.
C10_EmptyResult ==
  (pc = "idle" /\ runs > 0 /\ dataframes = <<>>) =>
    (outcome = "returned" /\ returned.rows = <<>>)

\* the exception the file system's condition on a file calls for, "none" when
\* the move goes through and the destination is there afterwards
MoveCondition(fault) ==
  CASE fault = "vanished" -> "FileNotFoundError"
    [] fault = "permission" -> "PermissionError"
    [] fault \in {"oserror", "unconfirmed"} -> "Exception"
    [] OTHER -> "none"

\* C11: a call of move_and_rename_file returns a path only when the file is at
\* that path afterwards and gone from the input directory; otherwise it raises
\* FileNotFoundError (source absent; nothing is archived), PermissionError
\* (move disallowed) or the generic Exception (any other fault, or destination
\* absent after the move), and no path is handed to the caller.
C11_MoveOutcome ==
  [][pc = "move" =>
       /\ pc' = "record" <=> MoveCondition(env[file_path]) = "none"
       /\ pc' = "record" =>
            /\ new_file_path' \in ArchiveNames
            /\ new_file_path'.base_name = file_path
            /\ processed_dir'[new_file_path'] = input_dir[file_path]
            /\ processed_dir'[new_file_path'].kind = "table"
            /\ input_dir'[file_path].kind = "absent"
            /\ log' = log
       /\ pc' # "record" =>
            /\ log' = Append(log, [file |-> file_path, exc |-> MoveCondition(env[file_path]),
                                   at |-> "move"])
            /\ new_file_path' = new_file_path
            /\ processed_dir' = processed_dir]_vars

\* a move after which the destination was absent ended in the generic failure
C11_Witness ==
  \E k \in 1..Len(log) :
    /\ log[k].at = "move"
    /\ log[k].exc = "Exception"
    /\ env[log[k].file] = "unconfirmed"
    /\ input_dir[log[k].file].kind = "absent"

\* the position of the display label of column c in frame f
DisplayIdx(f, c) == CHOOSE i \in 1..Len(f.cols) : f.cols[i] = DisplayColumn(c)

\* C12: after a run with exactly one accepted file, the run has returned a
\* frame with that file's rows, display-cased labels including Full Name, and
\* in every row Full Name = First Name, a space, Last Name (missing when a
\* part is missing).
C12_SingleAcceptedResult ==
  (pc = "idle" /\ runs > 0 /\ Len(dataframes) = 1) =>
    /\ outcome = "returned"
    /\ Len(returned.rows) = Len(dataframes[1].rows)
    /\ {DisplayColumn(c) : c \in required_columns \cup {full_name}} \subseteq Range(returned.cols)
    /\ \A i \in 1..Len(returned.cols) : returned.cols[i] = DisplayColumn(returned.cols[i])
    /\ \A r \in 1..Len(returned.rows) :
         returned.rows[r][DisplayIdx(returned, full_name)] =
           FullNameCell(returned.rows[r][DisplayIdx(returned, first_name)],
                        returned.rows[r][DisplayIdx(returned, last_name)])

\* a label with letter case, surrounding spaces and the separator (space,
\* hyphen or underscore) taken out of the comparison
Canonical(h) ==
  StrReplace(StrReplace(StrLower(StrStrip(h)), Space, Underscore), Hyphen, Underscore)

\* C13: a table whose header carries every required name up to letter case,
\* surrounding spaces and the separator used passes the required-column check
\* of validate_data.
C13_HeaderVariantsMatch ==
  pc \in {"transform", "quarantine"} =>
    LET raw == input_dir[file_path]
    IN (\A c \in required_columns : \E i \in 1..Len(raw.cols) : Canonical(raw.cols[i]) = c)
         => /\ pc = "transform"
            /\ "missing_required_columns" \notin DOMAIN validation_report

\* the files of this run that the loop has left without a logged failure
RecordedFiles == {i \in 1..(idx - 1) : ~Logged(file_paths[i])}

\* C14: during a run, the result set and the list of FileRecords hold entries
\* only for files that the loop has left as Recorded: nothing of a file whose
\* relocation or metadata write is pending, nothing of a file that failed.
C14_AccumulateAfterSettlement ==
  pc \in {"read", "validate", "transform", "quarantine", "move", "record",
          "save_metadata", "finish"} =>
    /\ Len(dataframes) <= Cardinality(RecordedFiles)
    /\ Len(metadata_collection) <= Cardinality(RecordedFiles)

\* C15: a FileRecord written by save_metadata is never overwritten or altered
\* by a later step of any run.
C15_FileRecordWriteOnce ==
  [][\A st \in Stems : metadata_dir[st] # NoRecord => metadata_dir'[st] = metadata_dir[st]]_vars

====
